---- MODULE Spec2Model ----
(***************************************************************************)
(* Model of src/excel.py: one firing of ReportTask.execute, step by step:  *)
(* ExcelProcessor.__enter__, refresh_data, validate_date,                  *)
(* capture_screenshots, __exit__/_safe_shutdown, _deliver_results,         *)
(* _send_attachment, _send_wechat and _cleanup.  Every call to the Excel   *)
(* COM service, to the HTTP endpoints and to the file system may succeed   *)
(* or raise; the model draws the outcome nondeterministically.  That is    *)
(* specification Spec.  Specification SpecSched is main() and the          *)
(* TaskScheduler around execute: loading config.yml, run_now, and the      *)
(* daemon loop that spawns one thread per due job; there a firing is       *)
(* followed only through opening, using and closing its session.           *)
(***************************************************************************)
EXTENDS Integers, Sequences, FiniteSets, TLC

\* ---------------------------------------------------------------- bounds
MaxFreq == 2       \* largest data_check.check_frequency drawn
MaxCaps == 3       \* largest number of capture_configs drawn
MaxTasks == 2      \* largest number of tasks in the configuration file
MaxFirings == 2    \* execute calls started by the daemon loop in one run
MaxClock == 2      \* last schedule slot the wall clock reaches

\* ------------------------------------------------------ program constants
refresh_timeout == 120      \* ExcelProcessor._refresh_timeout
PollInterval == 5           \* time.sleep(5) in refresh_data
RetryDelay == 10            \* time.sleep(10) in validate_date
retry_limit == 3            \* ReportTask.retry_limit
Sentinel == 1               \* sheet.Range(check_range).Value == 1

\* values the indicator cell can hold (0 falsy, 1 the sentinel, 2 truthy)
IndicatorValues == {0, 1, 2}

\* seconds RefreshAll and CalculateUntilAsyncQueriesDone can take together
\* before the polling loop is entered: at once, off the polling grid, and
\* longer than the timeout
CallDurations == {0, 3, 130}

\* schedule.times lists drawn: slot 1 and slot 2 are two times of the day
TimeLists == {<<>>, <<1>>, <<2>>, <<1, 2>>}

\* slots in a day: every().day re-arms a job one day later
DayLen == Cardinality({1, 2})

\* One entry of config["tasks"] as far as loading and scheduling read it.
\*   path_exists  os.path.exists(config["excel_path"])
\*   has_times    "times" in config["schedule"]
\*   times        config["schedule"]["times"]    (<<>> when absent)
\*   webhook      "missing": no key; "empty": ""; "set": a URL
TaskEntries ==
    [path_exists : BOOLEAN, has_times : {TRUE}, times : TimeLists,
     webhook : {"missing", "empty", "set"}]
    \cup
    [path_exists : BOOLEAN, has_times : {FALSE}, times : {<<>>},
     webhook : {"missing", "empty", "set"}]

\* config["tasks"]: lists of up to MaxTasks entries
RECURSIVE SeqsUpTo(_, _)
SeqsUpTo(S, n) ==
    IF n = 0 THEN {<<>>}
    ELSE LET shorter == SeqsUpTo(S, n - 1)
         IN  shorter \cup {Append(q, x) : q \in shorter, x \in S}
Docs == SeqsUpTo(TaskEntries, MaxTasks)

\* command lines: --run-all, --task N
ArgSets ==
    [run_all : BOOLEAN, has_task : {FALSE}, task : {0}]
    \cup [run_all : BOOLEAN, has_task : {TRUE}, task : 0..(MaxTasks - 1)]

\* exceptions that can reach the try block of execute
ExceptionKinds == {"RuntimeError", "KeyError", "OSError"}

\* A task configuration accepted by _validate_config: excel_path, schedule
\* (times, webhook) and capture_configs are present; data_check,
\* data_check_enable and send_file_enable are optional.
\*   has_data_check    the "data_check" section is present
\*   data_check_enable config.get("data_check_enable", False)
\*   check_frequency   data_check.check_frequency (0 when the section is absent)
\*   ncap              len(capture_configs)
\*   send_file_enable  config.get("send_file_enable", False)
TaskConfigs ==
    [has_data_check : {FALSE}, data_check_enable : BOOLEAN,
     check_frequency : {0}, ncap : 0..MaxCaps, send_file_enable : BOOLEAN]
    \cup
    [has_data_check : {TRUE}, data_check_enable : BOOLEAN,
     check_frequency : 0..MaxFreq, ncap : 0..MaxCaps, send_file_enable : BOOLEAN]

NoConfig ==
    [has_data_check |-> FALSE, data_check_enable |-> FALSE,
     check_frequency |-> 0, ncap |-> 0, send_file_enable |-> FALSE]

VARIABLES
    pc,          \* position of the firing inside execute
    config,      \* ReportTask.config of the firing
    excel,       \* ExcelProcessor.excel is not None
    workbook,    \* ExcelProcessor.workbook is not None
    appRunning,  \* the Excel application started by Dispatch is still running
    wbOpen,      \* the workbook opened by Workbooks.Open is still open
    closeCalls,  \* number of workbook.Close calls issued
    quitCalls,   \* number of excel.Quit calls issued
    sdFrom,      \* caller of _safe_shutdown: "enter" or "exit"
    after,       \* what leaves the with block: "deliver", "return", "raise"
    exc,         \* exception propagating in execute ("none" if none)
    caught,      \* exception caught by execute's except clause
    outcome,     \* how execute ended: "returned" or "raised"
    result,      \* stage result: "none", "refresh", "validate", "success"
    elapsed,     \* time.time() - start_time inside refresh_data
    pollStart,   \* value of elapsed when the polling loop was entered
    rcaller,     \* caller of refresh_data: "execute" or "validate"
    attempt,     \* loop variable of validate_date / _send_wechat
    vlog,        \* calls made by validate_date, in order (kept until
                 \* capture_screenshots starts)
    capIdx,      \* index of the next capture spec
    capLog,      \* capture specs attempted, in order, with success flag
    screenshots, \* list returned by capture_screenshots
    files,       \* artifact files present on disk
    dIdx,        \* index of the next screenshot in _deliver_results/_cleanup
    sendCtx,     \* what the current _send_wechat call sends
    sendLog,     \* posts and sleeps of the current _send_wechat call
    sendOk,      \* the current/last _send_wechat call logged success
    trace,       \* posts, uploads and deletions of the firing, in order
    spc,         \* position of main(): "load", "load_failed", "run_now",
                 \* "daemon", "exited", "run_failed"
    doc,         \* config["tasks"] of the configuration file
    args,        \* command line: --run-all and --task (has_task: not None)
    tasks,       \* TaskScheduler.tasks: indices of doc, in list order
    jobs,        \* jobs armed with the schedule library
    now,         \* wall clock in schedule slots
    firings,     \* execute calls made so far, in order of their start
    sess,        \* per ExcelProcessor constructed: "none", "open", "closed"
    calls,       \* COM calls issued: who issued them, on which session
    runIdx,      \* run_now: position in the list of targets
    runLog       \* run_now: starts and returns of execute, in order

firingVars == <<pc, config, excel, workbook, appRunning, wbOpen, closeCalls,
                quitCalls, sdFrom, after, exc, caught, outcome, result,
                elapsed, pollStart, rcaller, attempt, vlog, capIdx, capLog,
                screenshots, files, dIdx, sendCtx, sendLog, sendOk, trace>>
schedVars == <<spc, doc, args, tasks, jobs, now, firings, sess, calls,
               runIdx, runLog>>
vars == <<firingVars, schedVars>>

sessionVars == <<excel, workbook, appRunning, wbOpen, closeCalls, quitCalls>>
captureVars == <<capIdx, capLog, screenshots, files>>
sendVars == <<sendCtx, sendLog, sendOk>>

\* No execute call is in progress.
FiringIdle ==
    /\ pc = "idle"
    /\ config = NoConfig
    /\ excel = FALSE /\ workbook = FALSE
    /\ appRunning = FALSE /\ wbOpen = FALSE
    /\ closeCalls = 0 /\ quitCalls = 0
    /\ sdFrom = "none" /\ after = "none"
    /\ exc = "none" /\ caught = "none"
    /\ outcome = "none" /\ result = "none"
    /\ elapsed = 0 /\ pollStart = 0 /\ rcaller = "none" /\ attempt = 0
    /\ vlog = <<>>
    /\ capIdx = 0 /\ capLog = <<>> /\ screenshots = <<>> /\ files = {}
    /\ dIdx = 0
    /\ sendCtx = "none" /\ sendLog = <<>> /\ sendOk = FALSE
    /\ trace = <<>>

\* The scheduler around the firing is left out of the picture: one loaded
\* task whose execute is called again and again.
SchedIdle ==
    /\ spc = "run_now"
    /\ doc = <<>> /\ args = [run_all |-> TRUE, has_task |-> FALSE, task |-> 0]
    /\ tasks = <<>> /\ jobs = <<>> /\ now = 0
    /\ firings = <<>> /\ sess = <<>> /\ calls = {}
    /\ runIdx = 0 /\ runLog = <<>>

Init == FiringIdle /\ SchedIdle

\* execute is entered for a task: self.config is the task's configuration,
\* a fresh ExcelProcessor is constructed (excel = workbook = None) and
\* __enter__ starts.
Execute ==
    /\ pc = "idle"
    /\ \E c \in TaskConfigs : config' = c
    /\ pc' = "dispatch"
    /\ UNCHANGED <<sessionVars, sdFrom, after, exc, caught, outcome, result,
                   elapsed, pollStart, rcaller, attempt, vlog, captureVars,
                   dIdx, sendVars, trace>>
    /\ UNCHANGED schedVars

\* ------------------------------------------------ ExcelProcessor.__enter__
\* A fault anywhere in __enter__ runs _safe_shutdown and then raises
\* RuntimeError out of the with statement (__exit__ is not called).
EnterFault ==
    /\ pc' = "shutdown_close"
    /\ sdFrom' = "enter"

\* win32.Dispatch("Excel.Application"), Visible, DisplayAlerts
EnterDispatch ==
    /\ pc = "dispatch"
    /\ \/ /\ excel' = TRUE /\ appRunning' = TRUE
          /\ pc' = "open" /\ UNCHANGED sdFrom
       \/ /\ EnterFault
          /\ UNCHANGED <<excel, appRunning>>
    /\ UNCHANGED <<config, workbook, wbOpen, closeCalls, quitCalls, after,
                   exc, caught, outcome, result, elapsed, pollStart,
                   rcaller, attempt, vlog, captureVars, dIdx, sendVars,
                   trace>>
    /\ UNCHANGED schedVars

\* self.excel.Workbooks.Open(self.file_path)
EnterOpen ==
    /\ pc = "open"
    /\ \/ /\ workbook' = TRUE /\ wbOpen' = TRUE
          /\ pc' = "zoom" /\ UNCHANGED sdFrom
       \/ /\ EnterFault
          /\ UNCHANGED <<workbook, wbOpen>>
    /\ UNCHANGED <<config, excel, appRunning, closeCalls, quitCalls, after,
                   exc, caught, outcome, result, elapsed, pollStart,
                   rcaller, attempt, vlog, captureVars, dIdx, sendVars,
                   trace>>
    /\ UNCHANGED schedVars

\* The zoom loop: a fault on one sheet is swallowed, a fault enumerating
\* workbook.Worksheets is not.  On success __enter__ returns self and the
\* with body starts with excel.refresh_data().
EnterZoom ==
    /\ pc = "zoom"
    /\ \/ /\ pc' = "refresh_all" /\ rcaller' = "execute"
          /\ UNCHANGED sdFrom
       \/ /\ EnterFault
          /\ UNCHANGED rcaller
    /\ UNCHANGED <<config, sessionVars, after, exc, caught, outcome, result,
                   elapsed, pollStart, attempt, vlog, captureVars, dIdx,
                   sendVars, trace>>
    /\ UNCHANGED schedVars

\* --------------------------------- ExcelProcessor.__exit__/_safe_shutdown
\* Leaving the with body: __exit__ runs _safe_shutdown and returns None, so
\* a pending exception keeps propagating.  how is "deliver" (the body ran
\* to its end), "return" (a return statement) or "raise" (exception e).
ExitWith(how, e) ==
    /\ pc' = "shutdown_close"
    /\ sdFrom' = "exit"
    /\ after' = how
    /\ exc' = e

\* mutant: Close and Quit each in a try block of their own
ShutdownCloseOwnHandler ==
    /\ pc = "shutdown_close"
    /\ IF workbook
         THEN /\ closeCalls' = closeCalls + 1
              /\ \/ wbOpen' = FALSE
                 \/ UNCHANGED wbOpen
         ELSE UNCHANGED <<closeCalls, wbOpen>>
    /\ pc' = "shutdown_quit"
    /\ UNCHANGED <<config, excel, workbook, appRunning, quitCalls, sdFrom,
                   after, exc, caught, outcome, result, elapsed, pollStart,
                   rcaller, attempt, vlog, captureVars, dIdx, sendVars,
                   trace>>
    /\ UNCHANGED schedVars

\* if self.workbook: self.workbook.Close(SaveChanges=True)
\* A fault jumps to the except clause of _safe_shutdown, skipping Quit.
ShutdownClose ==
    /\ pc = "shutdown_close"
    /\ IF workbook
         THEN /\ closeCalls' = closeCalls + 1
              /\ \/ /\ wbOpen' = FALSE
                    /\ pc' = "shutdown_quit"
                 \/ /\ UNCHANGED wbOpen
                    /\ pc' = "shutdown_ret"
         ELSE /\ pc' = "shutdown_quit"
              /\ UNCHANGED <<closeCalls, wbOpen>>
    /\ UNCHANGED <<config, excel, workbook, appRunning, quitCalls, sdFrom,
                   after, exc, caught, outcome, result, elapsed, pollStart,
                   rcaller, attempt, vlog, captureVars, dIdx, sendVars,
                   trace>>
    /\ UNCHANGED schedVars

\* if self.excel: self.excel.Quit()
\* Quitting the application also ends any workbook it still holds.
ShutdownQuit ==
    /\ pc = "shutdown_quit"
    /\ IF excel
         THEN /\ quitCalls' = quitCalls + 1
              /\ \/ /\ appRunning' = FALSE /\ wbOpen' = FALSE
                 \/ /\ UNCHANGED <<appRunning, wbOpen>>
         ELSE UNCHANGED <<quitCalls, appRunning, wbOpen>>
    /\ pc' = "shutdown_ret"
    /\ UNCHANGED <<config, excel, workbook, closeCalls, sdFrom, after, exc,
                   caught, outcome, result, elapsed, pollStart, rcaller,
                   attempt, vlog, captureVars, dIdx, sendVars, trace>>
    /\ UNCHANGED schedVars

\* _safe_shutdown returns (it never raises).  From __enter__ the
\* RuntimeError is raised; from __exit__ control goes where the with body
\* was heading: to _deliver_results (whose loop starts at the first
\* screenshot), to the end of the try, or to the except clause.
ShutdownReturn ==
    /\ pc = "shutdown_ret"
    /\ IF sdFrom = "enter"
         THEN /\ exc' = "RuntimeError" /\ pc' = "except"
         ELSE /\ UNCHANGED exc
              /\ pc' = CASE after = "deliver" -> "deliver"
                         [] after = "return" -> "finally"
                         [] OTHER -> "except"
    /\ dIdx' = IF sdFrom = "exit" /\ after = "deliver" THEN 1 ELSE dIdx
    /\ UNCHANGED <<config, sessionVars, sdFrom, after, caught, outcome,
                   result, elapsed, pollStart, rcaller, attempt, vlog,
                   captureVars, sendVars, trace>>
    /\ UNCHANGED schedVars

\* ------------------------------------- ReportTask.execute: except/finally
\* mutant: the except clause names one exception class only
ExecuteCatchesRuntimeOnly(e) == e = "RuntimeError"

\* except Exception as e: catches every exception kind raised in the try.
ExecuteCatches(e) == e \in ExceptionKinds

Except ==
    /\ pc = "except"
    /\ IF ExecuteCatches(exc)
         THEN caught' = exc /\ exc' = "none"
         ELSE UNCHANGED <<caught, exc>>
    /\ pc' = "finally"
    /\ UNCHANGED <<config, sessionVars, sdFrom, after, outcome, result,
                   elapsed, pollStart, rcaller, attempt, vlog, captureVars,
                   dIdx, sendVars, trace>>
    /\ UNCHANGED schedVars

\* finally: logs the duration; execute then returns, or the uncaught
\* exception leaves execute.
Finally ==
    /\ pc = "finally"
    /\ pc' = "done"
    /\ outcome' = IF exc = "none" THEN "returned" ELSE "raised"
    /\ UNCHANGED <<config, sessionVars, sdFrom, after, exc, caught, result,
                   elapsed, pollStart, rcaller, attempt, vlog, captureVars,
                   dIdx, sendVars, trace>>
    /\ UNCHANGED schedVars

\* The caller (run_now's loop or the task thread) takes over again; the
\* ExcelProcessor and the locals of the firing are gone.
Return ==
    /\ pc = "done"
    /\ pc' = "idle"
    /\ config' = NoConfig
    /\ excel' = FALSE /\ workbook' = FALSE
    /\ appRunning' = FALSE /\ wbOpen' = FALSE
    /\ closeCalls' = 0 /\ quitCalls' = 0
    /\ sdFrom' = "none" /\ after' = "none"
    /\ exc' = "none" /\ caught' = "none"
    /\ outcome' = "none" /\ result' = "none"
    /\ elapsed' = 0 /\ pollStart' = 0 /\ rcaller' = "none" /\ attempt' = 0
    /\ vlog' = <<>>
    /\ capIdx' = 0 /\ capLog' = <<>> /\ screenshots' = <<>> /\ files' = {}
    /\ dIdx' = 0
    /\ sendCtx' = "none" /\ sendLog' = <<>> /\ sendOk' = FALSE
    /\ trace' = <<>>
    /\ UNCHANGED schedVars

\* A return statement inside the with body (lines 274 and 291).
WithReturn ==
    /\ pc = "body_return"
    /\ ExitWith("return", "none")
    /\ UNCHANGED <<config, sessionVars, caught, outcome, result, elapsed,
                   pollStart, rcaller, attempt, vlog, captureVars, dIdx,
                   sendVars, trace>>
    /\ UNCHANGED schedVars

\* ------------------------------------------- ExcelProcessor.refresh_data
\* refresh_data returns r to its caller.  execute branches on r;
\* validate_date discards r and goes on with the next attempt.
\* mutant: validate_date passes a failed retry refresh on to execute
RefreshReturnPropagates(r) ==
    /\ elapsed' = 0 /\ pollStart' = 0
    /\ IF rcaller = "execute" \/ ~r
         THEN /\ pc' = IF r THEN "check_validate" ELSE "notify_refresh"
              /\ result' = IF r THEN result ELSE "refresh"
              /\ UNCHANGED <<attempt, vlog>>
         ELSE /\ pc' = "validate_loop"
              /\ attempt' = attempt + 1
              /\ vlog' = Append(vlog, <<"refresh", 1>>)
              /\ UNCHANGED result

RefreshReturn(r) ==
    /\ elapsed' = 0 /\ pollStart' = 0
    /\ IF rcaller = "execute"
         THEN /\ pc' = IF r THEN "check_validate" ELSE "notify_refresh"
              /\ result' = IF r THEN result ELSE "refresh"
              /\ UNCHANGED <<attempt, vlog>>
         ELSE /\ pc' = "validate_loop"
              /\ attempt' = attempt + 1
              /\ vlog' = Append(vlog, <<"refresh", IF r THEN 1 ELSE 0>>)
              /\ UNCHANGED result

\* start_time is taken, then self.workbook.RefreshAll() and
\* self.excel.CalculateUntilAsyncQueriesDone() run: they fault, or return
\* after d seconds and the polling loop is entered.
RefreshAll ==
    /\ pc = "refresh_all"
    /\ \/ /\ pc' = "refresh_poll"
          /\ \E d \in CallDurations : elapsed' = d /\ pollStart' = d
          /\ UNCHANGED <<result, attempt, vlog>>
       \/ RefreshReturn(FALSE)
    /\ UNCHANGED <<config, sessionVars, sdFrom, after, exc, caught, outcome,
                   rcaller, captureVars, dIdx, sendVars, trace>>
    /\ UNCHANGED schedVars

\* while time.time() - start_time < self._refresh_timeout
PollContinuesLate(e) == e < refresh_timeout + 2 * PollInterval
PollContinues(e) == e < refresh_timeout

\* mutant: the start time is taken anew when the timeout has elapsed
RefreshPollRestarts ==
    /\ pc = "refresh_poll"
    /\ IF PollContinues(elapsed)
         THEN \/ RefreshReturn(TRUE)
              \/ /\ elapsed' = elapsed + PollInterval
                 /\ UNCHANGED <<pc, pollStart, result, attempt, vlog>>
              \/ RefreshReturn(FALSE)
         ELSE /\ elapsed' = 0
              /\ UNCHANGED <<pc, pollStart, result, attempt, vlog>>
    /\ UNCHANGED <<config, sessionVars, sdFrom, after, exc, caught, outcome,
                   rcaller, captureVars, dIdx, sendVars, trace>>
    /\ UNCHANGED schedVars

\* One round of the polling loop: CalculationState == 0 returns True
\* (filter re-application faults are swallowed), otherwise sleep 5 s; a
\* fault returns False; when the timeout has elapsed the loop ends and
\* refresh_data returns False.
RefreshPoll ==
    /\ pc = "refresh_poll"
    /\ IF PollContinues(elapsed)
         THEN \/ RefreshReturn(TRUE)
              \/ /\ elapsed' = elapsed + PollInterval
                 /\ UNCHANGED <<pc, pollStart, result, attempt, vlog>>
              \/ RefreshReturn(FALSE)
         ELSE RefreshReturn(FALSE)
    /\ UNCHANGED <<config, sessionVars, sdFrom, after, exc, caught, outcome,
                   rcaller, captureVars, dIdx, sendVars, trace>>
    /\ UNCHANGED schedVars

\* ------------------------------------------------ ReportTask._send_wechat
\* webhook argument of each call site
Webhook(ctx) ==
    IF ctx \in {"warn_refresh", "warn_validate"}
      THEN "warning_webhook" ELSE "webhook"

\* mutant: linear instead of exponential backoff
BackoffLinear(a) == 2 * a

\* time.sleep(2 ** attempt)
Backoff(a) == 2 ^ a

\* _send_wechat is called: attempt = 1, nothing posted yet.
StartSend(ctx) ==
    /\ pc' = "send"
    /\ sendCtx' = ctx
    /\ attempt' = 1
    /\ sendLog' = <<>>
    /\ sendOk' = FALSE

\* mutant: the return after the warning send is missing
AfterWarningFallsThrough(ctx) ==
    IF ctx = "warn_refresh" THEN "check_validate" ELSE "capture"

\* where control goes when the warning send of execute has returned
AfterWarning(ctx) == "body_return"

\* _send_wechat returns to its call site.
SendReturn ==
    CASE sendCtx \in {"warn_refresh", "warn_validate"} ->
           /\ pc' = AfterWarning(sendCtx)
           /\ UNCHANGED <<dIdx, capIdx>>
      [] sendCtx = "image" ->
           /\ pc' = "deliver" /\ dIdx' = dIdx + 1
           /\ UNCHANGED capIdx
      [] OTHER ->
           /\ pc' = "cleanup" /\ dIdx' = 1
           /\ UNCHANGED capIdx

\* One iteration of the retry loop: requests.post + raise_for_status.
\* Success returns at once; a failure sleeps 2 ** attempt and, unless it
\* was the last attempt, tries again.
SendAttempt ==
    /\ pc = "send"
    /\ trace' = Append(trace,
          [op |-> "post", kind |-> sendCtx,
           item |-> IF sendCtx = "image" THEN screenshots[dIdx] ELSE 0,
           to |-> Webhook(sendCtx)])
    /\ \/ /\ sendLog' = Append(sendLog, <<"post", 1>>)
          /\ sendOk' = TRUE
          /\ SendReturn
          /\ UNCHANGED attempt
       \/ /\ sendLog' = sendLog \o <<<<"post", 0>>, <<"sleep", Backoff(attempt)>>>>
          /\ UNCHANGED sendOk
          /\ IF attempt = retry_limit
               THEN SendReturn /\ UNCHANGED attempt
               ELSE /\ attempt' = attempt + 1
                    /\ UNCHANGED <<pc, dIdx, capIdx>>
    /\ UNCHANGED <<config, sessionVars, sdFrom, after, exc, caught, outcome,
                   result, elapsed, pollStart, rcaller, vlog, capLog,
                   screenshots, files, sendCtx>>
    /\ UNCHANGED schedVars

\* -------------------------------- ReportTask.execute: refresh failed
\* self.config["data_check"]["warning_webhook"] raises KeyError when the
\* configuration has no data_check section.
NotifyRefresh ==
    /\ pc = "notify_refresh"
    /\ IF config.has_data_check
         THEN /\ StartSend("warn_refresh")
              /\ UNCHANGED <<sdFrom, after, exc>>
         ELSE /\ ExitWith("raise", "KeyError")
              /\ UNCHANGED <<attempt, sendVars>>
    /\ UNCHANGED <<config, sessionVars, caught, outcome, result, elapsed,
                   pollStart, rcaller, vlog, captureVars, dIdx, trace>>
    /\ UNCHANGED schedVars

\* ------------------------------------ ReportTask.execute: date check
\* if self.config.get("data_check_enable", False): read check_range and
\* check_frequency from data_check (KeyError without the section) and call
\* validate_date; otherwise go on to capture_screenshots.
CheckValidate ==
    /\ pc = "check_validate"
    /\ IF config.data_check_enable
         THEN IF config.has_data_check
                THEN /\ pc' = "validate_loop" /\ attempt' = 1
                     /\ UNCHANGED <<sdFrom, after, exc, capIdx>>
                ELSE /\ ExitWith("raise", "KeyError")
                     /\ UNCHANGED <<attempt, capIdx>>
         ELSE /\ pc' = "capture" /\ capIdx' = 1
              /\ UNCHANGED <<sdFrom, after, exc, attempt>>
    /\ UNCHANGED <<config, sessionVars, caught, outcome, result, elapsed,
                   pollStart, rcaller, vlog, capLog, screenshots, files,
                   dIdx, sendVars, trace>>
    /\ UNCHANGED schedVars

\* ------------------------------------------ ExcelProcessor.validate_date
\* valid = sheet.Range(check_range).Value == 1
IsValid(v) == v = Sentinel

\* mutant: off-by-one in the retry guard
RetryAfterMissInclusive(a, check_frequency) == a <= check_frequency

\* if attempt < check_frequency: sleep and refresh again
RetryAfterMiss(a, check_frequency) == a < check_frequency

\* mutant: a faulted read is retried like a miss, after the delay and a
\* refresh
ValidateReadFaultRetries ==
    /\ pc = "validate_loop"
    /\ attempt <= config.check_frequency
    /\ \/ \E v \in IndicatorValues :
            IF IsValid(v)
              THEN /\ vlog' = Append(vlog, <<"read", v>>)
                   /\ pc' = "capture" /\ capIdx' = 1
                   /\ UNCHANGED <<attempt, rcaller>>
              ELSE IF RetryAfterMiss(attempt, config.check_frequency)
                     THEN /\ vlog' = vlog \o <<<<"read", v>>, <<"sleep", RetryDelay>>>>
                          /\ pc' = "refresh_all" /\ rcaller' = "validate"
                          /\ UNCHANGED <<attempt, capIdx>>
                     ELSE /\ vlog' = Append(vlog, <<"read", v>>)
                          /\ attempt' = attempt + 1
                          /\ UNCHANGED <<pc, rcaller, capIdx>>
       \/ IF RetryAfterMiss(attempt, config.check_frequency)
            THEN /\ vlog' = vlog \o <<<<"fault", 0>>, <<"sleep", RetryDelay>>>>
                 /\ pc' = "refresh_all" /\ rcaller' = "validate"
                 /\ UNCHANGED <<attempt, capIdx>>
            ELSE /\ vlog' = Append(vlog, <<"fault", 0>>)
                 /\ attempt' = attempt + 1
                 /\ UNCHANGED <<pc, rcaller, capIdx>>
    /\ UNCHANGED <<config, sessionVars, sdFrom, after, exc, caught, outcome,
                   result, elapsed, pollStart, capLog, screenshots, files,
                   dIdx, sendVars, trace>>
    /\ UNCHANGED schedVars

\* One iteration of "for attempt in range(1, check_frequency+1)": the
\* indicator is read; the sentinel returns True; another value sleeps 10 s
\* and refreshes when attempts remain; a fault is logged and the loop goes
\* on with the next attempt.
ValidateRead ==
    /\ pc = "validate_loop"
    /\ attempt <= config.check_frequency
    /\ \/ \E v \in IndicatorValues :
            IF IsValid(v)
              THEN /\ vlog' = Append(vlog, <<"read", v>>)
                   /\ pc' = "capture" /\ capIdx' = 1
                   /\ UNCHANGED <<attempt, rcaller>>
              ELSE IF RetryAfterMiss(attempt, config.check_frequency)
                     THEN /\ vlog' = vlog \o <<<<"read", v>>, <<"sleep", RetryDelay>>>>
                          /\ pc' = "refresh_all" /\ rcaller' = "validate"
                          /\ UNCHANGED <<attempt, capIdx>>
                     ELSE /\ vlog' = Append(vlog, <<"read", v>>)
                          /\ attempt' = attempt + 1
                          /\ UNCHANGED <<pc, rcaller, capIdx>>
       \/ /\ vlog' = Append(vlog, <<"fault", 0>>)
          /\ attempt' = attempt + 1
          /\ UNCHANGED <<pc, rcaller, capIdx>>
    /\ UNCHANGED <<config, sessionVars, sdFrom, after, exc, caught, outcome,
                   result, elapsed, pollStart, capLog, screenshots, files,
                   dIdx, sendVars, trace>>
    /\ UNCHANGED schedVars

\* The loop is over without a valid read: validate_date returns False and
\* execute takes the validation-failure branch.
ValidateExhausted ==
    /\ pc = "validate_loop"
    /\ attempt > config.check_frequency
    /\ result' = "validate"
    /\ pc' = "notify_validate"
    /\ UNCHANGED <<config, sessionVars, sdFrom, after, exc, caught, outcome,
                   elapsed, pollStart, rcaller, attempt, vlog, captureVars,
                   dIdx, sendVars, trace>>
    /\ UNCHANGED schedVars

\* mutant: the validation branch sends the fixed refresh-failure warning
NotifyValidateFixedMessage ==
    /\ pc = "notify_validate"
    /\ StartSend("warn_refresh")
    /\ UNCHANGED <<config, sessionVars, sdFrom, after, exc, caught, outcome,
                   result, elapsed, pollStart, rcaller, vlog, captureVars,
                   dIdx, trace>>
    /\ UNCHANGED schedVars

\* self._send_wechat(type="text", data={notify_message, notify_users}, ...,
\* webhook=data_check.warning_webhook)
NotifyValidate ==
    /\ pc = "notify_validate"
    /\ StartSend("warn_validate")
    /\ UNCHANGED <<config, sessionVars, sdFrom, after, exc, caught, outcome,
                   result, elapsed, pollStart, rcaller, vlog, captureVars,
                   dIdx, trace>>
    /\ UNCHANGED schedVars

\* --------------------------------- ExcelProcessor.capture_screenshots
\* outcome of one capture spec: ok; the sheet lookup faults; chart.Paste
\* faults; another fault inside _capture_range (range, CopyPicture,
\* Export); Export returns but the output file does not exist
CaptureOutcomes == {"ok", "sheet", "paste", "fault", "nofile"}

\* mutant: new screenshots are put in front of the list
CaptureResultPrepend(shots, i, o) ==
    IF o = "ok" THEN <<i>> \o shots ELSE shots

\* if self._capture_range(...): screenshots.append(output_path)
CaptureResult(shots, i, o) == IF o = "ok" THEN Append(shots, i) ELSE shots

\* One iteration of "for cfg in configs".
CaptureSpec ==
    /\ pc = "capture"
    /\ capIdx <= config.ncap
    /\ \E o \in CaptureOutcomes :
         /\ capLog' = Append(capLog, <<capIdx, IF o = "ok" THEN 1 ELSE 0>>)
         /\ screenshots' = CaptureResult(screenshots, capIdx, o)
         /\ files' = IF o = "ok" THEN files \cup {capIdx} ELSE files
    /\ capIdx' = capIdx + 1
    /\ vlog' = <<>>
    /\ UNCHANGED <<pc, config, sessionVars, sdFrom, after, exc, caught,
                   outcome, result, elapsed, pollStart, rcaller, attempt,
                   dIdx, sendVars, trace>>
    /\ UNCHANGED schedVars

\* After the loop the zoom is restored (faults swallowed),
\* capture_screenshots returns and the with body ends.
CaptureDone ==
    /\ pc = "capture"
    /\ capIdx > config.ncap
    /\ result' = "success"
    /\ ExitWith("deliver", "none")
    /\ vlog' = <<>>
    /\ UNCHANGED <<config, sessionVars, caught, outcome, elapsed, pollStart,
                   rcaller, attempt, captureVars, dIdx, sendVars, trace>>
    /\ UNCHANGED schedVars

\* ------------------------------------------- ReportTask._deliver_results
\* for img_path in screenshots: data=self._prepare_image(img_path) is
\* evaluated first; if it raises (file unreadable) the exception leaves
\* _deliver_results and reaches execute's except clause.
DeliverImage ==
    /\ pc = "deliver"
    /\ dIdx <= Len(screenshots)
    /\ \/ /\ StartSend("image")
          /\ UNCHANGED exc
       \/ /\ exc' = "OSError" /\ pc' = "except"
          /\ UNCHANGED <<attempt, sendVars>>
    /\ UNCHANGED <<config, sessionVars, sdFrom, after, caught, outcome,
                   result, elapsed, pollStart, rcaller, vlog, captureVars,
                   dIdx, trace>>
    /\ UNCHANGED schedVars

\* if self.config.get("send_file_enable", False): self._send_attachment()
DeliverImagesDone ==
    /\ pc = "deliver"
    /\ dIdx > Len(screenshots)
    /\ IF config.send_file_enable
         THEN pc' = "attachment" /\ UNCHANGED dIdx
         ELSE pc' = "cleanup" /\ dIdx' = 1
    /\ UNCHANGED <<config, sessionVars, sdFrom, after, exc, caught, outcome,
                   result, elapsed, pollStart, rcaller, attempt, vlog,
                   captureVars, sendVars, trace>>
    /\ UNCHANGED schedVars

\* ------------------------- ReportTask._send_attachment / _upload_file
\* file_path missing or not on disk: skip; open() faults: logged;
\* otherwise _upload_file posts the file and returns media_id or None,
\* and the reference is sent only if media_id is truthy.
AttachmentOutcomes == {"invalid_path", "open_fault", "upload_fail", "upload_ok"}

\* mutant: the reference is sent without testing media_id
SendAttachmentUnchecked ==
    /\ pc = "attachment"
    /\ \E o \in AttachmentOutcomes :
         /\ trace' = IF o \in {"upload_fail", "upload_ok"}
                       THEN Append(trace, [op |-> "upload", kind |-> "file",
                                           item |-> IF o = "upload_ok"
                                                      THEN 1 ELSE 0,
                                           to |-> "upload_url"])
                       ELSE trace
         /\ IF o \in {"upload_fail", "upload_ok"}
              THEN StartSend("file") /\ UNCHANGED dIdx
              ELSE /\ pc' = "cleanup" /\ dIdx' = 1
                   /\ UNCHANGED <<attempt, sendVars>>
    /\ UNCHANGED <<config, sessionVars, sdFrom, after, exc, caught, outcome,
                   result, elapsed, pollStart, rcaller, vlog, captureVars>>
    /\ UNCHANGED schedVars

\* The upload entry of the trace carries 1 when _upload_file returned a
\* media_id and 0 when it returned None.
SendAttachment ==
    /\ pc = "attachment"
    /\ \E o \in AttachmentOutcomes :
         /\ trace' = IF o \in {"upload_fail", "upload_ok"}
                       THEN Append(trace, [op |-> "upload", kind |-> "file",
                                           item |-> IF o = "upload_ok"
                                                      THEN 1 ELSE 0,
                                           to |-> "upload_url"])
                       ELSE trace
         /\ IF o = "upload_ok"
              THEN StartSend("file") /\ UNCHANGED dIdx
              ELSE /\ pc' = "cleanup" /\ dIdx' = 1
                   /\ UNCHANGED <<attempt, sendVars>>
    /\ UNCHANGED <<config, sessionVars, sdFrom, after, exc, caught, outcome,
                   result, elapsed, pollStart, rcaller, vlog, captureVars>>
    /\ UNCHANGED schedVars

\* --------------------------------------------------- ReportTask._cleanup
\* os.remove(f) for each screenshot; a failure is logged and the loop
\* goes on.
CleanupFile ==
    /\ pc = "cleanup"
    /\ dIdx <= Len(screenshots)
    /\ trace' = Append(trace, [op |-> "delete", kind |-> "image",
                               item |-> screenshots[dIdx], to |-> "disk"])
    /\ \/ files' = files \ {screenshots[dIdx]}
       \/ UNCHANGED files
    /\ dIdx' = dIdx + 1
    /\ UNCHANGED <<pc, config, sessionVars, sdFrom, after, exc, caught,
                   outcome, result, elapsed, pollStart, rcaller, attempt,
                   vlog, capIdx, capLog, screenshots, sendVars>>
    /\ UNCHANGED schedVars

\* _cleanup and _deliver_results return; the try block of execute ends.
CleanupDone ==
    /\ pc = "cleanup"
    /\ dIdx > Len(screenshots)
    /\ pc' = "finally"
    /\ UNCHANGED <<config, sessionVars, sdFrom, after, exc, caught, outcome,
                   result, elapsed, pollStart, rcaller, attempt, vlog,
                   captureVars, dIdx, sendVars, trace>>
    /\ UNCHANGED schedVars

Next ==
    \/ Execute
    \/ EnterDispatch \/ EnterOpen \/ EnterZoom
    \/ RefreshAll \/ RefreshPoll
    \/ NotifyRefresh \/ CheckValidate
    \/ ValidateRead \/ ValidateExhausted \/ NotifyValidate
    \/ CaptureSpec \/ CaptureDone
    \/ WithReturn
    \/ ShutdownClose \/ ShutdownQuit \/ ShutdownReturn
    \/ DeliverImage \/ DeliverImagesDone \/ SendAttachment
    \/ SendAttempt
    \/ CleanupFile \/ CleanupDone
    \/ Except \/ Finally \/ Return

Spec == Init /\ [][Next]_vars

\* The firing is one thread of control and every external call returns or
\* raises in finite time: a step that can be taken is taken.
SpecLive == Init /\ [][Next]_vars /\ WF_vars(Next)

\* ================================================= main / TaskScheduler
\* The scheduler around execute.  A firing is one call of execute; here it
\* is followed only through the steps the scheduler can observe: execute
\* entered ("start"), session open ("open"), refresh/read/capture issued
\* ("worked"), session closed and execute returned ("done").

\* ReportTask._validate_config raises for the entry
Rejected(e) == ~e.has_times \/ e.webhook = "missing" \/ ~e.path_exists

\* main() starts: the command line is parsed, config.yml holds d.
InitSched ==
    /\ FiringIdle
    /\ spc = "load"
    /\ doc \in Docs /\ args \in ArgSets
    /\ tasks = <<>> /\ jobs = <<>> /\ now = 0
    /\ firings = <<>> /\ sess = <<>> /\ calls = {}
    /\ runIdx = 0 /\ runLog = <<>>

\* TaskScheduler.__init__ / _load_tasks: one ReportTask per entry; the
\* first entry that _validate_config rejects aborts the load, the
\* exception reaches main's except clause and the process exits with 1.
\* The parsed document is local to _load_tasks; a task keeps what the
\* scheduler reads later, its schedule times.
LoadTasks ==
    /\ spc = "load"
    /\ IF \E i \in DOMAIN doc : Rejected(doc[i])
         THEN spc' = "load_failed" /\ tasks' = <<>>
         ELSE spc' = "loaded" /\ tasks' = [i \in DOMAIN doc |-> doc[i].times]
    /\ doc' = <<>>
    /\ UNCHANGED <<args, jobs, now, firings, sess, calls, runIdx, runLog>>
    /\ UNCHANGED firingVars

\* jobs armed by _schedule_tasks, in registration order: for each task in
\* list order, for each of its times in list order
RECURSIVE JobsFor(_, _)
JobsFor(ts, i) ==
    IF i > Len(ts) THEN <<>>
    ELSE [k \in DOMAIN ts[i] |-> [task |-> i, next |-> ts[i][k]]]
         \o JobsFor(ts, i + 1)

\* main: neither --run-all nor --task: start() arms the jobs and enters
\* the loop.
StartDaemon ==
    /\ spc = "loaded"
    /\ ~(args.run_all \/ args.has_task)
    /\ spc' = "daemon"
    /\ jobs' = JobsFor(tasks, 1)
    /\ UNCHANGED <<doc, args, tasks, now, firings, sess, calls, runIdx,
                   runLog>>
    /\ UNCHANGED firingVars

\* jobs whose next run is due
Due == {j \in DOMAIN jobs : jobs[j].next <= now}
\* run_pending runs the due jobs sorted by next run (stable)
FirstDue ==
    CHOOSE j \in Due :
        \A k \in Due : \/ jobs[j].next < jobs[k].next
                        \/ (jobs[j].next = jobs[k].next /\ j <= k)

\* the thread of main is not inside an execute call
LoopFree == \A f \in DOMAIN firings :
                firings[f].by = "main" => firings[f].pc = "done"

NewFiring(t, who) == [task |-> t, pc |-> "start", by |-> who, ok |-> TRUE]

\* The loop of start(): time.sleep(1) between two run_pending calls.  A
\* slot lasts many seconds, so the due jobs are run before the clock
\* reaches the next slot.
Tick ==
    /\ spc = "daemon" /\ LoopFree
    /\ Due = {}
    /\ now < MaxClock
    /\ now' = now + 1
    /\ UNCHANGED <<spc, doc, args, tasks, jobs, firings, sess, calls, runIdx,
                   runLog>>
    /\ UNCHANGED firingVars

\* run_pending runs a due job in the loop thread, waiting for execute
RunJobInline ==
    /\ spc = "daemon" /\ LoopFree
    /\ Due # {}
    /\ Len(firings) < MaxFirings
    /\ firings' = Append(firings, NewFiring(jobs[FirstDue].task, "main"))
    /\ jobs' = [jobs EXCEPT ![FirstDue].next = @ + DayLen]
    /\ UNCHANGED <<spc, doc, args, tasks, now, sess, calls, runIdx, runLog>>
    /\ UNCHANGED firingVars

\* run_pending runs a due job: _run_task creates a daemon thread whose
\* target calls task.execute, starts it and returns; the job is re-armed
\* for the next day.
RunJob ==
    /\ spc = "daemon" /\ LoopFree
    /\ Due # {}
    /\ Len(firings) < MaxFirings
    /\ firings' = Append(firings, NewFiring(jobs[FirstDue].task, "thread"))
    /\ jobs' = [jobs EXCEPT ![FirstDue].next = @ + DayLen]
    /\ UNCHANGED <<spc, doc, args, tasks, now, sess, calls, runIdx, runLog>>
    /\ UNCHANGED firingVars

\* targets = self.tasks if task_id is None else [self.tasks[task_id]]
\* (indices into tasks)
TargetsFrom(n, a) ==
    IF a.has_task THEN [k \in 1..(n - a.task) |-> a.task + k]
    ELSE [k \in 1..n |-> k]
Targets(n, a) ==
    IF a.has_task THEN <<a.task + 1>> ELSE [k \in 1..n |-> k]

\* main: --run-all or --task: run_now(args.task).  self.tasks[task_id]
\* raises IndexError for an index past the list; main's except clause
\* exits with 1.
RunNowEnter ==
    /\ spc = "loaded"
    /\ args.run_all \/ args.has_task
    /\ IF args.has_task /\ args.task >= Len(tasks)
         THEN spc' = "run_failed" /\ runIdx' = 0
         ELSE spc' = "run_now" /\ runIdx' = 1
    /\ UNCHANGED <<doc, args, tasks, jobs, now, firings, sess, calls, runLog>>
    /\ UNCHANGED firingVars

\* for task in targets: task.execute(...) is entered
RunNowCall ==
    /\ spc = "run_now" /\ LoopFree
    /\ runIdx >= 1 /\ runIdx <= Len(Targets(Len(tasks), args))
    /\ LET t == Targets(Len(tasks), args)[runIdx]
       IN  /\ firings' = Append(firings, NewFiring(t, "main"))
           /\ runLog' = Append(runLog, <<"start", t>>)
    /\ UNCHANGED <<spc, doc, args, tasks, jobs, now, sess, calls, runIdx>>
    /\ UNCHANGED firingVars

\* the loop of run_now is over; main returns
RunNowDone ==
    /\ spc = "run_now" /\ LoopFree
    /\ runIdx > Len(Targets(Len(tasks), args))
    /\ spc' = "exited"
    /\ UNCHANGED <<doc, args, tasks, jobs, now, firings, sess, calls, runIdx,
                   runLog>>
    /\ UNCHANGED firingVars

\* execute: with ExcelProcessor(path) as processor -- every call of
\* execute constructs a processor of its own, and __enter__ starts an
\* application of its own for it.  Processors are numbered by the firing
\* that constructed them.
ProcessorShared(f) == 1
ProcessorOf(f) == f

\* execute returns to its caller: the thread ends, or the loop of run_now
\* goes on with the next target (also after a failure: execute catches its
\* exceptions, and run_now wraps the call in try/except).
FiringReturns(f, ok) ==
    /\ firings' = [firings EXCEPT ![f].pc = "done", ![f].ok = ok]
    /\ IF firings[f].by = "main" /\ spc = "run_now"
         THEN /\ runLog' = Append(runLog, <<"end", firings[f].task>>)
              /\ runIdx' = runIdx + 1
         ELSE UNCHANGED <<runLog, runIdx>>

\* __enter__: the session is opened, or Dispatch/Open faults and execute
\* ends in its except clause.
FOpen(f) ==
    /\ firings[f].pc = "start"
    /\ \/ /\ firings' = [firings EXCEPT ![f].pc = "open"]
          /\ sess' = (ProcessorOf(f) :> "open") @@ sess
          /\ calls' = calls \cup
                 {[by |-> f, on |-> ProcessorOf(f), op |-> "open"]}
          /\ UNCHANGED <<runLog, runIdx>>
       \/ /\ FiringReturns(f, FALSE)
          /\ UNCHANGED <<sess, calls>>
    /\ UNCHANGED <<spc, doc, args, tasks, jobs, now>>
    /\ UNCHANGED firingVars

\* the with body: refresh_data, validate_date and capture_screenshots
\* call the processor's workbook; a failed stage leaves the body early.
FWork(f) ==
    /\ firings[f].pc = "open"
    /\ \E ok \in BOOLEAN :
          firings' = [firings EXCEPT ![f].pc = "worked", ![f].ok = ok]
    /\ calls' = calls \cup
           {[by |-> f, on |-> ProcessorOf(f), op |-> o] :
                o \in {"refresh", "read", "capture"}}
    /\ UNCHANGED <<spc, doc, args, tasks, jobs, now, sess, runIdx, runLog>>
    /\ UNCHANGED firingVars

\* __exit__: _safe_shutdown closes the processor's workbook and quits its
\* application; delivery follows and execute returns.
FClose(f) ==
    /\ firings[f].pc = "worked"
    /\ sess' = [sess EXCEPT ![ProcessorOf(f)] = "closed"]
    /\ calls' = calls \cup
           {[by |-> f, on |-> ProcessorOf(f), op |-> "close"]}
    /\ FiringReturns(f, firings[f].ok)
    /\ UNCHANGED <<spc, doc, args, tasks, jobs, now>>
    /\ UNCHANGED firingVars

NextSched ==
    \/ LoadTasks
    \/ StartDaemon \/ Tick \/ RunJob
    \/ RunNowEnter \/ RunNowCall \/ RunNowDone
    \/ \E f \in DOMAIN firings : FOpen(f)
    \/ \E f \in DOMAIN firings : FWork(f)
    \/ \E f \in DOMAIN firings : FClose(f)

SpecSched == InitSched /\ [][NextSched]_vars

\* ====================================================== properties
\* entries of the trace that satisfy P
TraceHas(P(_)) == \E i \in DOMAIN trace : P(trace[i])

IsPrimaryPost(e) == e.op = "post" /\ e.to = "webhook"
IsUpload(e) == e.op = "upload"
IsDelete(e) == e.op = "delete"
IsRefreshWarning(e) == e.op = "post" /\ e.kind = "warn_refresh"
IsValidateWarning(e) == e.op = "post" /\ e.kind = "warn_validate"

\* the firing is inside _deliver_results
InDelivery ==
    \/ pc \in {"deliver", "attachment", "cleanup"}
    \/ pc = "send" /\ sendCtx \in {"image", "file"}

\* C1: every firing that started opening a session (Dispatch returned an
\* application) ends with the session released: the workbook is closed and
\* the Excel application has quit.
C1_SessionReleasedAtEnd ==
    (pc = "done" /\ excel) => (~appRunning /\ ~wbOpen)

\* C2: in a successful firing no artifact send, attachment upload or
\* artifact deletion happens while the session of the firing is still open.
C2_NoDeliveryWhileSessionOpen ==
    InDelivery => (~appRunning /\ ~wbOpen)

\* C3: execute never propagates an exception: whatever faulted, the firing
\* ends with execute returning normally.
C3_ExecuteNeverRaises ==
    /\ pc = "done" => (outcome = "returned" /\ exc = "none")
    /\ outcome # "raised"

C3_Witness ==
    /\ pc = "done" /\ outcome = "returned"
    /\ caught = "OSError"
    /\ TraceHas(IsPrimaryPost)

\* C4: a firing whose initial refresh failed or whose validation was
\* exhausted captures no region, posts nothing to the primary webhook,
\* uploads no attachment and deletes no artifact file.
C4_FailedStageDeliversNothing ==
    result \in {"refresh", "validate"} =>
        /\ capLog = <<>> /\ screenshots = <<>> /\ files = {}
        /\ ~TraceHas(IsPrimaryPost)
        /\ ~TraceHas(IsUpload)
        /\ ~TraceHas(IsDelete)
        /\ ~InDelivery

C4_Witness ==
    /\ pc = "done" /\ result = "refresh"
    /\ config.ncap > 0 /\ config.send_file_enable
    /\ TraceHas(IsRefreshWarning)

\* C5: for every accepted configuration, a firing whose refresh failed has
\* attempted to send the refresh-failure warning when it ends.
C5_RefreshFailureWarns ==
    (pc = "done" /\ result = "refresh") => TraceHas(IsRefreshWarning)

\* ---- validate_date
NumOf(log, op) == Len(SelectSeq(log, LAMBDA e : e[1] = op))
NoFault(log) == \A i \in DOMAIN log : log[i][1] # "fault"
NoSentinelRead(log) ==
    \A i \in DOMAIN log : log[i][1] = "read" => log[i][2] # Sentinel

\* read, then (sleep, refresh, read) repeated: every refresh lies between
\* two consecutive reads
Alternates(log) ==
    \A i \in DOMAIN log :
        log[i][1] = CASE i % 3 = 1 -> "read"
                      [] i % 3 = 2 -> "sleep"
                      [] OTHER -> "refresh"

\* validate_date returned False: execute is in its validation-failure branch
ValidateFailed == result = "validate"

\* validate_date returned True: execute went on to capture_screenshots
ValidateSucceeded ==
    config.data_check_enable /\ pc = "capture" /\ capIdx = 1

\* validate_date was called and has returned
ValidationOver == ValidateFailed \/ ValidateSucceeded

\* C6: with check_frequency = N >= 1 and every read returning a value other
\* than the sentinel, validate_date makes exactly N reads and N-1 refreshes,
\* each refresh between two consecutive reads, and returns False.
C6_ExhaustedValidation ==
    (ValidationOver /\ config.check_frequency >= 1
       /\ NoFault(vlog) /\ NoSentinelRead(vlog)) =>
        /\ result = "validate"
        /\ NumOf(vlog, "read") = config.check_frequency
        /\ NumOf(vlog, "refresh") = config.check_frequency - 1
        /\ Len(vlog) = 3 * config.check_frequency - 2
        /\ Alternates(vlog)

C6_Witness ==
    /\ pc = "notify_validate"
    /\ config.check_frequency >= 2
    /\ NoFault(vlog) /\ NoSentinelRead(vlog)
    /\ NumOf(vlog, "refresh") = config.check_frequency - 1

\* C7: when the indicator equals the sentinel on the k-th read, k <=
\* check_frequency, validation succeeds after exactly k reads and k-1 retry
\* refreshes (a valid first read: 1 read, no refresh, no delay).
C7_ReadsAndRefreshes ==
    ValidateSucceeded =>
        /\ NumOf(vlog, "read") + NumOf(vlog, "fault") <= config.check_frequency
        /\ NumOf(vlog, "refresh")
             = NumOf(vlog, "read") + NumOf(vlog, "fault") - 1

\* C8: a firing whose validation was exhausted attempts the configured
\* validation-failure notification on the warning webhook; a firing posts
\* at most one of the two warnings, the one matching its failure reason.
C8_ValidationWarning ==
    /\ (pc = "done" /\ result = "validate") =>
          /\ TraceHas(IsValidateWarning)
          /\ \A i \in DOMAIN trace :
                IsValidateWarning(trace[i]) /\ trace[i].to = "warning_webhook"
    /\ ~(TraceHas(IsRefreshWarning) /\ TraceHas(IsValidateWarning))
    /\ TraceHas(IsValidateWarning) => result = "validate"
    /\ TraceHas(IsRefreshWarning) => result = "refresh"

C8_Witness ==
    /\ pc = "done" /\ result = "validate"
    /\ TraceHas(IsValidateWarning)
    /\ config.check_frequency >= 1

\* ---- capture_screenshots
\* the specs of the capture log that succeeded, in log order
Succeeded(log) ==
    LET ok == SelectSeq(log, LAMBDA e : e[2] = 1)
    IN  [i \in DOMAIN ok |-> ok[i][1]]

\* C9: every capture spec is attempted, in configuration order, whether or
\* not earlier specs failed; the returned list is exactly the subsequence
\* of the specs that succeeded, in order; it may be empty, and delivery is
\* entered all the same.
C9_CaptureSubsequence ==
    /\ \A i \in DOMAIN capLog : capLog[i][1] = i
    /\ screenshots = Succeeded(capLog)
    /\ result = "success" =>
          /\ Len(capLog) = config.ncap
          /\ sdFrom = "exit" /\ after = "deliver"

C9_Witness ==
    /\ pc = "deliver"
    /\ capLog = <<<<1, 1>>, <<2, 0>>, <<3, 1>>>>
    /\ screenshots = <<1, 3>>

C9_WitnessEmpty ==
    /\ pc = "cleanup"
    /\ config.ncap > 0 /\ screenshots = <<>>

\* ---- _send_wechat
Delays == <<2, 4, 8>>

\* the log of a call with nf failed posts, then a success if ok
ExpectedSendLog(nf, ok) ==
    LET fails == [i \in 1..(2 * nf) |->
                    IF i % 2 = 1 THEN <<"post", 0>>
                                 ELSE <<"sleep", Delays[i \div 2]>>]
    IN  IF ok THEN Append(fails, <<"post", 1>>) ELSE fails

\* C10: one _send_wechat call makes k posts if the k-th is the first to
\* succeed (k <= 3) and exactly 3 if all fail; it stops at the first
\* success; the k-th failed post is followed by a delay of 2^k seconds
\* (2, 4, 8) and a successful post by none.
C10_SendRetryPolicy ==
    \E nf \in 0..3 :
        /\ sendLog = ExpectedSendLog(nf, sendOk)
        /\ sendOk => nf <= 2
        /\ pc = "send" => (~sendOk /\ nf = attempt - 1 /\ nf <= 2)
        /\ (pc # "send" /\ sendCtx # "none") => (sendOk \/ nf = 3)

C10_Witness ==
    /\ pc # "send" /\ sendOk
    /\ sendLog = <<<<"post", 0>>, <<"sleep", 2>>, <<"post", 0>>,
                   <<"sleep", 4>>, <<"post", 1>>>>

C10_WitnessAllFail ==
    /\ pc # "send" /\ ~sendOk
    /\ sendLog = <<<<"post", 0>>, <<"sleep", 2>>, <<"post", 0>>,
                   <<"sleep", 4>>, <<"post", 0>>, <<"sleep", 8>>>>

\* ---- _deliver_results
\* positions of the trace entries that satisfy P
Positions(P(_)) == {i \in DOMAIN trace : P(trace[i])}

IsImagePost(e) == e.op = "post" /\ e.kind = "image"
IsFilePost(e) == e.op = "post" /\ e.kind = "file"

\* the firing entered _deliver_results and that call is over
DeliveryOver == result = "success" /\ pc \in {"finally", "done"}

\* C11: in one run of _deliver_results every artifact gets at least one
\* send attempt, also when the sends of earlier artifacts all failed, and
\* all attempts for an earlier artifact precede those for a later one.
C11_EveryArtifactSentInOrder ==
    /\ DeliveryOver =>
          \A k \in DOMAIN screenshots :
              \E i \in Positions(IsImagePost) : trace[i].item = screenshots[k]
    /\ \A i, j \in Positions(IsImagePost) :
          i < j => trace[i].item <= trace[j].item

\* C12: after any run of _deliver_results, whatever happened to each item
\* (sent, send exhausted, bytes unreadable, upload failed), the deletion of
\* every artifact file has been attempted, after the sends; a failed
\* deletion does not stop the others.
C12_EveryArtifactDeleted ==
    /\ DeliveryOver =>
          \A k \in DOMAIN screenshots :
              \E i \in Positions(IsDelete) : trace[i].item = screenshots[k]
    /\ \A i \in Positions(IsDelete) :
          \A j \in DOMAIN trace : trace[j].op \in {"post", "upload"} => j < i

\* C13: _deliver_results never raises: no failure of a per-item step
\* (reading an artifact, sending, uploading, deleting) leaves the call as
\* an exception.
C13_DeliverNeverRaises ==
    result = "success" => (exc \notin {"OSError"} /\ caught \notin {"OSError"})

\* C14: a configured attachment is handled after all artifact sends and
\* before cleanup; its reference is posted to the primary webhook, at most
\* 3 times, only if the upload returned a reference id; after a failed
\* upload there is no attachment post and the cleanup still runs.
C14_AttachmentAfterSendsBeforeCleanup ==
    /\ Cardinality(Positions(IsUpload)) <= 1
    /\ Positions(IsUpload) # {} => config.send_file_enable
    /\ \A u \in Positions(IsUpload) :
          /\ \A i \in Positions(IsImagePost) : i < u
          /\ \A i \in Positions(IsDelete) : u < i
          /\ trace[u].item = 0 => Positions(IsFilePost) = {}
          /\ (trace[u].item = 0 /\ DeliveryOver) =>
                \A k \in DOMAIN screenshots :
                    \E i \in Positions(IsDelete) :
                        trace[i].item = screenshots[k]
    /\ \A f \in Positions(IsFilePost) :
          /\ trace[f].to = "webhook"
          /\ \E u \in Positions(IsUpload) : u < f /\ trace[u].item = 1
          /\ \A i \in Positions(IsImagePost) : i < f
          /\ \A i \in Positions(IsDelete) : f < i
    /\ Cardinality(Positions(IsFilePost)) <= retry_limit

C14_Witness ==
    /\ pc = "done"
    /\ Len(screenshots) >= 2
    /\ \E u \in Positions(IsUpload) : trace[u].item = 0
    /\ Cardinality(Positions(IsDelete)) = Len(screenshots)

C14_WitnessSent ==
    /\ pc = "cleanup"
    /\ Cardinality(Positions(IsFilePost)) = 3
    /\ Positions(IsImagePost) # {}

\* ---- refresh_data
\* C20: a refresh whose calculation state never reports idle returns False
\* (the firing fails at the refresh stage) and its polling loop stops no
\* later than the timeout plus one poll interval after the loop started; a
\* refresh that faults returns False too, and nothing is raised.
InRefresh == pc \in {"refresh_all", "refresh_poll"}
RefreshReturnedFalse ==
    /\ elapsed' = 0
    /\ exc' = "none"
    /\ IF rcaller = "execute"
         THEN pc' = "notify_refresh" /\ result' = "refresh"
         ELSE pc' = "validate_loop" /\ vlog' = Append(vlog, <<"refresh", 0>>)
RefreshReturnedTrue ==
    /\ elapsed' = 0
    /\ exc' = "none"
    /\ IF rcaller = "execute"
         THEN pc' = "check_validate" /\ result' = result
         ELSE pc' = "validate_loop" /\ vlog' = Append(vlog, <<"refresh", 1>>)
RefreshStep ==
    /\ InRefresh => exc' = "none" /\ pc' # "except"
    /\ pc = "refresh_poll" =>
          \/ RefreshReturnedFalse
          \/ elapsed - pollStart < refresh_timeout /\ RefreshReturnedTrue
          \/ /\ elapsed - pollStart < refresh_timeout
             /\ pc' = "refresh_poll" /\ pollStart' = pollStart
             /\ elapsed' = elapsed + PollInterval
C20_RefreshTimeout ==
    /\ [](pc = "refresh_poll" =>
            elapsed - pollStart < refresh_timeout + PollInterval)
    /\ [][RefreshStep]_vars
\* the loop has gone round without an idle report until the timeout, on a
\* start that was off the polling grid
C20_Witness ==
    /\ pc = "refresh_poll" /\ rcaller = "execute"
    /\ pollStart > 0 /\ elapsed > pollStart
    /\ elapsed >= refresh_timeout
\* the blocking calls alone outlasted the timeout: the loop body never runs
C20_WitnessLateStart ==
    pc = "refresh_poll" /\ pollStart >= refresh_timeout /\ elapsed = pollStart

\* ---- main / TaskScheduler
\* an entry the configuration rules reject: the source path does not
\* exist, or the schedule times or the webhook are missing or empty
Defective(e) ==
    \/ ~e.path_exists
    \/ ~e.has_times \/ e.times = <<>>
    \/ e.webhook \in {"missing", "empty"}

\* C15: when any task of the configuration has a source path that does not
\* exist, or schedule times or a webhook that are missing or empty, loading
\* fails: no scheduler is constructed, no trigger is armed and no task is
\* ever executed.
C15_DefectiveConfigFailsLoad ==
    /\ [][(spc = "load" /\ \E i \in DOMAIN doc : Defective(doc[i]))
            => spc' = "load_failed"]_vars
    /\ [](spc = "load_failed" =>
            tasks = <<>> /\ jobs = <<>> /\ firings = <<>>)

\* firing f holds an open session
HoldsSession(f) ==
    \E c \in calls : c.by = f /\ c.op = "open" /\ sess[c.on] = "open"
Running(f) == firings[f].pc # "done"

\* C16: in daemon mode firing a trigger only spawns a thread and returns:
\* every firing runs in a thread of its own, and whatever the running
\* firings do, the control loop goes on polling -- a due trigger can be
\* fired and, with nothing due, the clock moves on.
C16_FiringOnlySpawns ==
    spc = "daemon" =>
        /\ \A f \in DOMAIN firings : firings[f].by = "thread"
        /\ (Due # {} /\ Len(firings) < MaxFirings) => ENABLED RunJob
        /\ (Due = {} /\ now < MaxClock) => ENABLED Tick
\* a firing of task B, started after a firing of task A, has run to
\* completion while A's is still running
C16_Witness ==
    /\ spc = "daemon"
    /\ \E a, b \in DOMAIN firings :
          /\ a < b /\ firings[a].task # firings[b].task
          /\ firings[a].pc = "open" /\ HoldsSession(a)
          /\ firings[b].pc = "done" /\ firings[b].ok

\* C17: two firings of the same task never run concurrently: in no
\* reachable state do two firings of one task both hold an open session on
\* the task's spreadsheet document.
C17_NoOverlapOfOneTask ==
    \A a, b \in DOMAIN firings :
        (a # b /\ firings[a].task = firings[b].task)
            => ~(HoldsSession(a) /\ HoldsSession(b))

RECURSIVE OneByOne(_, _)
OneByOne(lo, hi) ==
    IF lo > hi THEN <<>>
    ELSE <<<<"start", lo>>, <<"end", lo>>>> \o OneByOne(lo + 1, hi)
IsPrefix(p, q) == Len(p) <= Len(q) /\ SubSeq(q, 1, Len(p)) = p

\* C19: run_now runs the tasks synchronously, one at a time, in list
\* order: a task starts only after the execute of the one before it has
\* returned, a failed task does not keep the next one from running, and
\* with a task index given exactly that one task is executed.
C19_RunNowInOrder ==
    spc \in {"run_now", "exited"} =>
        LET wanted == IF args.has_task
                        THEN OneByOne(args.task + 1, args.task + 1)
                        ELSE OneByOne(1, Len(tasks))
        IN  /\ IsPrefix(runLog, wanted)
            /\ spc = "exited" => runLog = wanted
            /\ Cardinality({f \in DOMAIN firings : Running(f)}) <= 1
            /\ Len(firings) = (Len(runLog) + 1) \div 2
            /\ \A f \in DOMAIN firings :
                  /\ firings[f].by = "main"
                  /\ runLog[2 * f - 1] = <<"start", firings[f].task>>
                  /\ Running(f) <=> Len(runLog) = 2 * f - 1
\* all tasks were run although the first one failed
C19_Witness ==
    /\ spc = "exited" /\ ~args.has_task
    /\ Len(firings) = MaxTasks
    /\ ~firings[1].ok /\ firings[Len(firings)].ok
\* --task 0 with several tasks loaded: only the first one was run
C19_WitnessOneTask ==
    /\ spc = "exited" /\ args.has_task /\ args.task = 0
    /\ Len(tasks) > 1
    /\ Len(firings) = 1 /\ firings[1].task = 1

\* ---- validate_date: faults and failed refreshes inside the retry loop
\* a retry refresh of validate_date returned False
FailedRetryRefresh(i) == vlog[i] = <<"refresh", 0>>
\* the firing has made a retry refresh
Retried == rcaller = "validate"

\* C23: a refresh that fails during a validation retry does not make the
\* firing fail at the refresh stage: its result is ignored, the next
\* indicator read is still made, the firing ends as validation success or
\* validation failure, and no refresh-failure warning is sent for it.
C23_RetryRefreshResultIgnored ==
    /\ Retried =>
          /\ result # "refresh"
          /\ pc # "notify_refresh"
          /\ ~TraceHas(IsRefreshWarning)
          /\ pc = "done" => result \in {"validate", "success"}
    /\ \A i \in DOMAIN vlog :
          FailedRetryRefresh(i) =>
              /\ Retried
              /\ IF i = Len(vlog)
                   THEN pc = "validate_loop"
                        /\ attempt <= config.check_frequency
                   ELSE vlog[i + 1][1] \in {"read", "fault"}
\* a retry refresh failed and the read after it found the sentinel
C23_Witness ==
    /\ ValidateSucceeded
    /\ \E i \in DOMAIN vlog :
          FailedRetryRefresh(i) /\ i < Len(vlog) /\ vlog[i + 1][1] = "read"
\* every retry refresh failed and validation was exhausted
C23_WitnessExhausted ==
    /\ pc = "done" /\ result = "validate"
    /\ NumOf(vlog, "refresh") >= 1
    /\ \A i \in DOMAIN vlog : vlog[i][1] = "refresh" => FailedRetryRefresh(i)

\* reads attempted so far, faulted ones included
Attempts(log) == NumOf(log, "read") + NumOf(log, "fault")
AllFaults(log) == \A i \in DOMAIN log : log[i][1] = "fault"
InValidation == pc = "validate_loop" \/ (InRefresh /\ Retried)

\* C24: an indicator read that faults inside validate_date is not
\* propagated: it uses up one attempt and the loop goes straight to the
\* next read, without the retry delay and without a refresh; when every
\* read faults, validation fails after exactly check_frequency reads and no
\* retry refresh.
C24_ReadFaultUsesAttempt ==
    /\ InValidation => exc = "none"
    /\ pc = "validate_loop" => Attempts(vlog) = attempt - 1
    /\ ValidationOver => Attempts(vlog) <= config.check_frequency
    /\ \A i \in DOMAIN vlog :
          (vlog[i][1] = "fault" /\ i < Len(vlog))
              => vlog[i + 1][1] \in {"read", "fault"}
    /\ (ValidationOver /\ AllFaults(vlog)) =>
          /\ result = "validate"
          /\ NumOf(vlog, "fault") = config.check_frequency
          /\ Len(vlog) = config.check_frequency
\* every read faulted, more than once
C24_Witness ==
    /\ pc = "notify_validate"
    /\ config.check_frequency >= 2
    /\ AllFaults(vlog) /\ Len(vlog) = config.check_frequency
\* a faulted read followed at once by a read that found the sentinel
C24_WitnessRecovered ==
    /\ ValidateSucceeded
    /\ vlog = <<<<"fault", 0>>, <<"read", Sentinel>>>>

\* ---- _safe_shutdown
InShutdown == pc \in {"shutdown_close", "shutdown_quit", "shutdown_ret"}
\* the step is workbook.Close raising
CloseFaults ==
    pc = "shutdown_close" /\ workbook
        /\ closeCalls' = closeCalls + 1 /\ wbOpen' = wbOpen
\* the step is workbook.Close returning
CloseReturns ==
    pc = "shutdown_close" /\ workbook
        /\ closeCalls' = closeCalls + 1 /\ ~wbOpen'

\* what a step of _safe_shutdown may do
ShutdownStep ==
    /\ CloseFaults =>
          (pc' = "shutdown_ret" /\ quitCalls' = quitCalls /\ exc' = exc)
    /\ CloseReturns => pc' = "shutdown_quit"
    /\ (pc = "shutdown_quit" /\ excel) =>
          (quitCalls' = quitCalls + 1 /\ pc' = "shutdown_ret" /\ exc' = exc)
\* _safe_shutdown has returned after calling Close
AfterShutdown ==
    /\ workbook /\ closeCalls = 1
    /\ pc \notin {"idle", "dispatch", "open", "zoom"}
    /\ ~InShutdown

C25_WitnessQuitAttempted ==
    /\ pc = "done" /\ workbook /\ closeCalls = 1
    /\ ~wbOpen /\ appRunning /\ quitCalls = 1

\* _safe_shutdown has been called and has returned
ShutdownOver == sdFrom # "none" /\ ~InShutdown

\* C22: _safe_shutdown never propagates a fault and releases the session
\* exactly once, also when __enter__ succeeded only in part: once it has
\* returned, every workbook that was opened has had one Close, every
\* application that was started has had one Quit, and neither gets another.
C22_ReleasedExactlyOnce ==
    /\ InShutdown => (exc = "none" \/ (sdFrom = "exit" /\ after = "raise"))
    /\ closeCalls <= 1 /\ quitCalls <= 1
    /\ ShutdownOver =>
          /\ workbook => closeCalls = 1
          /\ excel => quitCalls = 1

\* ---- execute: termination
\* C21: when every external call returns or raises in finite time, every
\* firing terminates: the refresh poll is bounded by its timeout,
\* validation by check_frequency, each send by retry_limit attempts and
\* the screenshot list is finite, so execute reaches its end.
C21_FiringTerminates == (pc = "dispatch") ~> (pc = "done")
\* a firing that went the long way has ended: the polling loop ran into
\* its timeout and the warning send used up its attempts
C21_Witness ==
    /\ pc = "done" /\ result = "refresh"
    /\ Len(sendLog) >= 2 * retry_limit - 1
    /\ ~sendOk
====
